---- MODULE Spec2Model ----
(***************************************************************************)
(* Andy AI chat core: ChatService.processMessage and the utilities it is   *)
(* built on (Cache, RateLimiter, retry, Timeout), and the session creation *)
(* of ContextService, as a state machine.                                  *)
(*                                                                         *)
(* JavaScript runs one task at a time and a task gives up control only at  *)
(* an await, so every action below is the code between two suspension      *)
(* points of one call.  Time (Date.now()) is the variable now, advanced by *)
(* Tick.                                                                   *)
(***************************************************************************)
EXTENDS Integers, Sequences, FiniteSets, TLC

\* ---------------------------------------------------------------- bounds
\* Number of processMessage calls of one run.
NumReq == 2
\* Date.now() ranges over 0..MaxTime.
MaxTime == 2
\* Number of operations in one run of a Cache, or of a context store, used
\* on its own.
MaxOps == 5

\* Configuration of the program, scaled down so that a run can exceed it:
\* new RateLimiter({maxRequests: 50, perMinute: 1})
maxRequests == 1
resetInterval == 2
\* new Cache({maxSize: 1000, ttl: 3600000})
maxSize == 2
ttl == 1
\* TIMEOUT_MS = 30000
TIMEOUT_MS == 1
\* maxHistoryLength = 50
maxHistoryLength == 2
\* retry called on its own: attempts ranges over 0..MaxAttempts.
MaxAttempts == 3

\* private readonly MAX_RETRIES = 3
MAX_RETRIES == 3

\* ---------------------------------------------------------------- inputs
UserIds == {"u1", "u2", ""}
MessageTexts == {"hi", ""}
\* The messages given to the model router used on its own, and those that
\* build the contexts it is given.
LongMessage ==
    "Hello Andy I would like to talk with you about how my week went and what I should plan for my holidays next summer"
RouterMessages ==
    {"", "hi there", "tax form", "tax form please", "tax credit report please",
     "Calculate my tax deductions for W2 form",
     "Calculate my tax deductions for my W2 form",
     "tax w2 1099 deduction credit report form a b c"}
ContextMessages == {"hi", LongMessage}
\* The keys and values of a Cache used on its own.
CacheKeys == {"a", "b", "c"}
CacheValues == {"v1", "v2"}
\* The (userId, message) arguments of the processMessage calls.
Inputs == {<<"u1", "hi">>, <<"u2", "hi">>, <<"u1", "">>, <<"", "hi">>}
\* Arguments that hold the separator of the cache key.
ColonInputs == {<<"a", "b:c">>, <<"a:b", "c">>, <<"a", "c">>}
\* Every userId of a call.
AllUserIds == UserIds \cup {i[1] : i \in ColonInputs}

\* A value of type T | null is <<>> (null) or <<t>>.
NULL == <<>>
Some(v) == <<v>>

VARIABLES
    now,             \* Date.now()
    cache,           \* Cache.cache: the Map's entries in insertion order
    cacheRet,        \* a Cache used on its own: the last operation and its result,
                     \*   expired: the key a get found expired in a full Map,
                     \*   refill: a set of the key the get before it found so
    lastSet,         \* history: per key, the value and time of its last set
    insertedAt,      \* history: per key in the Map, the operation that inserted it
    opCount,         \* history: the number of direct operations so far
    ucRet,           \* updateContext called on its own: the last call and its result
    rlRet,           \* a RateLimiter used on its own: the last call and its result
    retryRet,        \* retry called on its own: the last call and its result
    routerRet,       \* determineAIModel called on its own: the last call and its result
    sessions,        \* Firestore, collection 'sessions': the documents
    sess,            \* the createNewSession calls: their arguments, position, result
    requests,        \* RateLimiter.requests
    lastReset,       \* RateLimiter.lastReset
    currentContext,  \* ChatService.currentContext: userId -> context | null
    req              \* the processMessage calls: their arguments, position, result

vars == <<now, cache, cacheRet, lastSet, insertedAt, opCount, ucRet, rlRet, retryRet,
          routerRet, sessions, sess, requests, lastReset, currentContext, req>>

\* The variables of the ContextService.
SessionVars == <<sessions, sess>>

\* ----------------------------------------------------------------- Cache
\* Map.has(key)
Has(c, k) == \E i \in 1..Len(c) : c[i].key = k

\* The position of key in the Map's iteration order.
IndexOf(c, k) == CHOOSE i \in 1..Len(c) : c[i].key = k

\* Map.delete at a position.
RemoveAt(c, i) == SubSeq(c, 1, i - 1) \o SubSeq(c, i + 1, Len(c))

\* Map.set: an existing key keeps its place in the iteration order.
MapSet(c, k, e) ==
    IF Has(c, k) THEN [c EXCEPT ![IndexOf(c, k)] = e] ELSE Append(c, e)

\* (a variant that expires an entry one tick early)
ExpiredAtTtl(item, t) == t - item.timestamp >= ttl

\* if (Date.now() - item.timestamp > this.ttl)
Expired(item, t) == t - item.timestamp > ttl

\* (a variant that reports an expired entry absent and leaves it in the Map)
CacheGetKeepsExpired(c, k, t) ==
    IF ~Has(c, k) THEN [value |-> NULL, cache |-> c]
    ELSE LET i == IndexOf(c, k) IN
         IF Expired(c[i], t)
         THEN [value |-> NULL, cache |-> c]
         ELSE [value |-> Some(c[i].value), cache |-> c]

\* Cache.get(key): the value returned and the Map afterwards.
CacheGet(c, k, t) ==
    IF ~Has(c, k) THEN [value |-> NULL, cache |-> c]
    ELSE LET i == IndexOf(c, k) IN
         IF Expired(c[i], t)
         THEN [value |-> NULL, cache |-> RemoveAt(c, i)]
         ELSE [value |-> Some(c[i].value), cache |-> c]

\* (a variant that deletes the last key of the iteration, the newest)
EvictNewest(c) ==
    IF Len(c) >= maxSize /\ Len(c) > 0 THEN SubSeq(c, 1, Len(c) - 1) ELSE c

\* if (this.cache.size >= this.maxSize) delete the first key of the iteration
\* (of an empty Map keys().next().value is undefined and delete does nothing).
Evict(c) == IF Len(c) >= maxSize /\ Len(c) > 0 THEN Tail(c) ELSE c

\* Cache.set(key, value): the Map afterwards.
CacheSet(c, k, v, t) ==
    MapSet(Evict(c), k, [key |-> k, value |-> v, timestamp |-> t])

\* Cache.clear()
CacheClear(c) == <<>>

\* ----------------------------------------------------------- RateLimiter
\* (a variant that allows one call more in each window)
checkLimitOneMore(n, lr, t) ==
    LET reset == t - lr >= resetInterval
        n1    == IF reset THEN 0 ELSE n
        lr1   == IF reset THEN t ELSE lr
    IN  IF n1 > maxRequests
        THEN [allowed |-> FALSE, requests |-> n1, lastReset |-> lr1]
        ELSE [allowed |-> TRUE, requests |-> n1 + 1, lastReset |-> lr1]

\* (a variant that counts the denied calls too)
checkLimitCountsDenied(n, lr, t) ==
    LET reset == t - lr >= resetInterval
        n1    == IF reset THEN 0 ELSE n
        lr1   == IF reset THEN t ELSE lr
    IN  [allowed |-> n1 < maxRequests, requests |-> n1 + 1, lastReset |-> lr1]

\* (a variant that resets one tick late)
checkLimitResetsLate(n, lr, t) ==
    LET reset == t - lr > resetInterval
        n1    == IF reset THEN 0 ELSE n
        lr1   == IF reset THEN t ELSE lr
    IN  IF n1 >= maxRequests
        THEN [allowed |-> FALSE, requests |-> n1, lastReset |-> lr1]
        ELSE [allowed |-> TRUE, requests |-> n1 + 1, lastReset |-> lr1]

\* RateLimiter.checkLimit(): the value returned and the fields afterwards.
checkLimit(n, lr, t) ==
    LET reset == t - lr >= resetInterval
        n1    == IF reset THEN 0 ELSE n
        lr1   == IF reset THEN t ELSE lr
    IN  IF n1 >= maxRequests
        THEN [allowed |-> FALSE, requests |-> n1, lastReset |-> lr1]
        ELSE [allowed |-> TRUE, requests |-> n1 + 1, lastReset |-> lr1]

\* ----------------------------------------------------------------- retry
\* What one call of fn does in the try block of retry: it returns a value
\* (a plain value or a promise, settled or not) or it throws an error.
Returns(v) == [kind |-> "returns", value |-> v]
Throws(e) == [kind |-> "throws", value |-> e]

\* let lastError: undefined until a catch assigns it.
undefined == "undefined"

\* (a variant that keeps the first error caught)
RECURSIVE retryKeepsFirstFrom(_, _, _, _)
retryKeepsFirstFrom(outcome, attempts, i, lastError) ==
    IF i > attempts
    THEN [calls |-> i - 1, kind |-> "throws", value |-> lastError]
    ELSE IF outcome[i].kind = "returns"
    THEN [calls |-> i, kind |-> "returns", value |-> outcome[i].value]
    ELSE retryKeepsFirstFrom(outcome, attempts, i + 1,
                             IF lastError = undefined THEN outcome[i].value
                             ELSE lastError)

retryKeepsFirst(outcome, attempts) ==
    retryKeepsFirstFrom(outcome, attempts, 1, undefined)

\* retry(fn, attempts), the loop from its i-th round on: outcome[i] is what
\* the i-th call of fn does.  The number of calls made, and what retry
\* returns or throws.
RECURSIVE retryFrom(_, _, _, _)
retryFrom(outcome, attempts, i, lastError) ==
    IF i > attempts
    THEN [calls |-> i - 1, kind |-> "throws", value |-> lastError]
    ELSE IF outcome[i].kind = "returns"
    THEN [calls |-> i, kind |-> "returns", value |-> outcome[i].value]
    ELSE retryFrom(outcome, attempts, i + 1, outcome[i].value)

retry(outcome, attempts) == retryFrom(outcome, attempts, 1, undefined)

\* () => this.getAIResponse(...): an async function returns a promise on
\* every call; a failure of the provider rejects that promise later.
AsyncCall == [i \in 1..MAX_RETRIES |-> Returns("promise")]

\* getAIResponseWithRetry: the provider invocations made by one call.
getAIResponseWithRetry == retry(AsyncCall, MAX_RETRIES).calls

\* --------------------------------------------------------- Context store
\* The ChatResponse the provider returns to call r, routed to model.
Response(r, model) == [content |-> "reply-" \o ToString(r), source |-> model]

\* array.slice(-n)
SliceLast(h, n) == IF Len(h) <= n THEN h ELSE SubSeq(h, Len(h) - n + 1, Len(h))

\* this.currentContext.get(userId) || {}: the fields updateContext reads.
HistoryOf(c) == IF c = NULL THEN <<>> ELSE c[1].conversationHistory
InteractionsOf(c) == IF c = NULL THEN 0 ELSE c[1].metrics.totalInteractions

\* (a variant that appends the assistant message only)
contextUpdateAssistantOnly(cur, message, response, t) ==
    [lastMessage |-> message,
     lastResponse |-> response,
     timestamp |-> t,
     conversationHistory |->
         SliceLast(HistoryOf(cur), maxHistoryLength) \o
         << [role |-> "assistant", content |-> response.content,
             timestamp |-> t, source |-> response.source] >>,
     metrics |-> [totalInteractions |-> InteractionsOf(cur) + 1,
                  lastUpdateTime |-> t]]

\* The context updateContext builds from the current one.
contextUpdate(cur, message, response, t) ==
    [lastMessage |-> message,
     lastResponse |-> response,
     timestamp |-> t,
     conversationHistory |->
         SliceLast(HistoryOf(cur), maxHistoryLength) \o
         << [role |-> "user", content |-> message, timestamp |-> t],
            [role |-> "assistant", content |-> response.content,
             timestamp |-> t, source |-> response.source] >>,
     metrics |-> [totalInteractions |-> InteractionsOf(cur) + 1,
                  lastUpdateTime |-> t]]

\* (a variant that keeps one context for all users, that of "u1")
updateContextBodyShared(map, userId, message, response, t) ==
    IF userId = "" \/ message = ""
    THEN [thrown |-> Some("INVALID_CONTEXT_UPDATE"), map |-> map]
    ELSE [thrown |-> NULL,
          map |-> [map EXCEPT !["u1"] =
                      Some(contextUpdate(map["u1"], message, response, t))]]

\* (a variant that writes the Map before it validates its arguments)
updateContextBodyWritesFirst(map, userId, message, response, t) ==
    [thrown |-> IF userId = "" \/ message = ""
                THEN Some("INVALID_CONTEXT_UPDATE") ELSE NULL,
     map |-> [map EXCEPT ![userId] =
                 Some(contextUpdate(map[userId], message, response, t))]]

\* updateContext, the try block: what it throws, if anything, and the Map
\* afterwards.
updateContextBody(map, userId, message, response, t) ==
    IF userId = "" \/ message = ""
    THEN [thrown |-> Some("INVALID_CONTEXT_UPDATE"), map |-> map]
    ELSE [thrown |-> NULL,
          map |-> [map EXCEPT ![userId] =
                      Some(contextUpdate(map[userId], message, response, t))]]

\* updateContext, the catch block: whatever the try block threw reaches the
\* caller as CONTEXT_UPDATE_ERROR.
updateContextCatch(thrown) ==
    IF thrown = NULL THEN NULL ELSE Some("CONTEXT_UPDATE_ERROR")

\* updateContext(userId, message, response): the error code its caller sees,
\* if any, and the Map afterwards.
updateContext(map, userId, message, response, t) ==
    LET b == updateContextBody(map, userId, message, response, t)
    IN  [error |-> updateContextCatch(b.thrown), map |-> b.map]

\* ---------------------------------------------------------- Model router
\* The characters of each message text.
Chars(m) ==
    CASE m = "hi" ->
         <<"h", "i">>
      [] m = "hi there" ->
         <<"h", "i", " ", "t", "h", "e", "r", "e">>
      [] m = "tax form" ->
         <<"t", "a", "x", " ", "f", "o", "r", "m">>
      [] m = "tax form please" ->
         <<"t", "a", "x", " ", "f", "o", "r", "m", " ", "p", "l", "e", "a",
           "s", "e">>
      [] m = "tax credit report please" ->
         <<"t", "a", "x", " ", "c", "r", "e", "d", "i", "t", " ", "r", "e",
           "p", "o", "r", "t", " ", "p", "l", "e", "a", "s", "e">>
      [] m = "Calculate my tax deductions for W2 form" ->
         <<"C", "a", "l", "c", "u", "l", "a", "t", "e", " ", "m", "y", " ",
           "t", "a", "x", " ", "d", "e", "d", "u", "c", "t", "i", "o", "n",
           "s", " ", "f", "o", "r", " ", "W", "2", " ", "f", "o", "r", "m">>
      [] m = "Calculate my tax deductions for my W2 form" ->
         <<"C", "a", "l", "c", "u", "l", "a", "t", "e", " ", "m", "y", " ",
           "t", "a", "x", " ", "d", "e", "d", "u", "c", "t", "i", "o", "n",
           "s", " ", "f", "o", "r", " ", "m", "y", " ", "W", "2", " ", "f",
           "o", "r", "m">>
      [] m = "tax w2 1099 deduction credit report form a b c" ->
         <<"t", "a", "x", " ", "w", "2", " ", "1", "0", "9", "9", " ", "d",
           "e", "d", "u", "c", "t", "i", "o", "n", " ", "c", "r", "e", "d",
           "i", "t", " ", "r", "e", "p", "o", "r", "t", " ", "f", "o", "r",
           "m", " ", "a", " ", "b", " ", "c">>
      [] m = "Hello Andy I would like to talk with you about how my week went and what I should plan for my holidays next summer" ->
         <<"H", "e", "l", "l", "o", " ", "A", "n", "d", "y", " ", "I", " ",
           "w", "o", "u", "l", "d", " ", "l", "i", "k", "e", " ", "t", "o",
           " ", "t", "a", "l", "k", " ", "w", "i", "t", "h", " ", "y", "o",
           "u", " ", "a", "b", "o", "u", "t", " ", "h", "o", "w", " ", "m",
           "y", " ", "w", "e", "e", "k", " ", "w", "e", "n", "t", " ", "a",
           "n", "d", " ", "w", "h", "a", "t", " ", "I", " ", "s", "h", "o",
           "u", "l", "d", " ", "p", "l", "a", "n", " ", "f", "o", "r", " ",
           "m", "y", " ", "h", "o", "l", "i", "d", "a", "y", "s", " ", "n",
           "e", "x", "t", " ", "s", "u", "m", "m", "e", "r">>
      [] m = "c" -> <<"c">>
      [] m = "b:c" -> <<"b", ":", "c">>
      [] OTHER -> <<>>

UpperCase == <<"A", "B", "C", "D", "E", "F", "G", "H", "I", "J", "K", "L", "M",
               "N", "O", "P", "Q", "R", "S", "T", "U", "V", "W", "X", "Y", "Z">>
LowerCase == <<"a", "b", "c", "d", "e", "f", "g", "h", "i", "j", "k", "l", "m",
               "n", "o", "p", "q", "r", "s", "t", "u", "v", "w", "x", "y", "z">>

\* String.toLowerCase()
toLowerCase(s) ==
    [i \in 1..Len(s) |->
        IF \E j \in 1..26 : UpperCase[j] = s[i]
        THEN LowerCase[CHOOSE j \in 1..26 : UpperCase[j] = s[i]]
        ELSE s[i]]

\* String.includes(k)
includes(s, k) ==
    \E i \in 0..(Len(s) - Len(k)) : SubSeq(s, i + 1, i + Len(k)) = k

technicalKeywords ==
    << <<"t", "a", "x">>,
       <<"i", "m", "p", "u", "e", "s", "t", "o", "s">>,
       <<"w", "2">>,
       <<"1", "0", "9", "9">>,
       <<"d", "e", "d", "u", "c", "t", "i", "o", "n">>,
       <<"c", "r", "e", "d", "i", "t">>,
       <<"c", "a", "l", "c", "u", "l", "a", "t", "i", "o", "n">>,
       <<"a", "n", "a", "l", "y", "s", "i", "s">>,
       <<"r", "e", "p", "o", "r", "t">>,
       <<"f", "o", "r", "m">> >>

\* message.split(' ').length
wordCount(s) == Cardinality({i \in 1..Len(s) : s[i] = " "}) + 1

\* technicalKeywords.filter(keyword => message.toLowerCase().includes(keyword)).length
technicalWordCount(s) ==
    LET lower == toLowerCase(s)
    IN  Cardinality({j \in 1..Len(technicalKeywords) :
                        includes(lower, technicalKeywords[j])})

\* calculateTechnicalScore(message), as the fraction num / den.
calculateTechnicalScore(s) ==
    [num |-> technicalWordCount(s), den |-> wordCount(s)]

\* The number of decimal digits of n >= 0.
RECURSIVE Digits(_)
Digits(n) == IF n < 10 THEN 1 ELSE 1 + Digits(n \div 10)

\* JSON.stringify(x).length of a ChatResponse {content, source, actions: []
\* [, confidence: 0.9]}, of a history Message and of a context; Date.now()
\* prints as 13 digits.
ResponseJsonLength(resp) ==
    Len(resp.content) + (IF resp.source = "claude" THEN 62 ELSE 43)

MessageJsonLength(msg) ==
    IF msg.role = "user" THEN 54 + Len(msg.content)
    ELSE 73 + Len(msg.content) + (IF msg.source = "claude" THEN 53 ELSE 34)

RECURSIVE HistoryJsonLength(_)
HistoryJsonLength(h) ==
    IF h = <<>> THEN 0
    ELSE MessageJsonLength(Head(h)) + (IF Len(h) > 1 THEN 1 ELSE 0)
         + HistoryJsonLength(Tail(h))

ContextJsonLength(c) ==
    IF c = NULL THEN 2
    ELSE 16 + Len(c[1].lastMessage) + 17 + ResponseJsonLength(c[1].lastResponse)
         + 13 + 13 + 24 + HistoryJsonLength(c[1].conversationHistory)
         + 33 + Digits(c[1].metrics.totalInteractions) + 18 + 13 + 2

\* evaluateContextComplexity(context) > 0.8, where the complexity is
\* Math.min(JSON.stringify(context).length / 1000, 1).
contextComplexityAbove08(c) == ContextJsonLength(c) > 800

\* (a variant that routes a score of exactly 0.7 to claude)
determineAIModelAtLeast(m, c) ==
    LET technicalScore == calculateTechnicalScore(Chars(m))
    IN  IF 10 * technicalScore.num >= 7 * technicalScore.den
           \/ contextComplexityAbove08(c)
        THEN "claude" ELSE "gpt4"

\* determineAIModel(message, context)
determineAIModel(m, c) ==
    LET technicalScore == calculateTechnicalScore(Chars(m))
    IN  IF 10 * technicalScore.num > 7 * technicalScore.den
           \/ contextComplexityAbove08(c)
        THEN "claude" ELSE "gpt4"

\* ------------------------------------------------- ChatService, the calls
Reqs == 1..NumReq

\* A createNewSession call that has not been made.
NoSessionCall ==
    [pc |-> "idle", userId |-> "", newSession |-> NULL, result |-> NULL,
     error |-> NULL]

\* generateCacheKey(userId, message)
generateCacheKey(userId, message) == userId \o ":" \o message

NoReq ==
    [pc |-> "idle", userId |-> "", message |-> "", attachments |-> <<>>,
     allowed |-> TRUE, context |-> NULL, attachmentContext |-> "", modelType |-> "gpt4", providerCalls |-> 0,
     provider |-> "none", deadline |-> 0, response |-> NULL,
     persist |-> "none", result |-> NULL, error |-> NULL,
     effects |-> {}]

\* Fields of a call that are not variables of processMessage:
\*   allowed    the value checkLimit returned to it
\*   provider   the state of the promise of its last provider invocation
\*   persist    how persistContext's write ended
\*   effects    history: which of the shared cache and context Map its own
\*              steps have changed
\*   result, error   what the caller of processMessage got

\* new AppError('CHAT_ERROR', 'Failed to process message: ' + error.message)
ChatError(cause) ==
    Some([code |-> "CHAT_ERROR",
          message |-> "Failed to process message: " \o cause])

\* The call has ended: its local variables are gone.
Ended(q) == [q EXCEPT !.context = NULL, !.deadline = 0, !.attachmentContext = ""]

\* The error texts of a failing provider.
ProviderErrors == {"upstream unavailable", "invalid x-api-key"}

Init ==
    /\ now = 0
    /\ cache = <<>>
    /\ cacheRet = [op |-> "none", key |-> "", value |-> NULL,
                   expired |-> "", refill |-> FALSE]
    /\ lastSet = [k \in CacheKeys |-> NULL]
    /\ insertedAt = [k \in CacheKeys |-> 0]
    /\ opCount = 0
    /\ ucRet = [op |-> "none", userId |-> "", message |-> "", error |-> NULL,
                persist |-> "none"]
    /\ rlRet = [op |-> "none", allowed |-> FALSE, reset |-> FALSE,
                exhausted |-> FALSE, granted |-> 0, log |-> <<>>, wait |-> 0]
    /\ retryRet = [op |-> "none", outcome |-> <<>>, attempts |-> 0,
                   calls |-> 0, kind |-> "", value |-> ""]
    /\ routerRet = [op |-> "none", message |-> "", context |-> NULL, model |-> ""]
    /\ sessions = {}
    /\ sess = [c \in Reqs |-> NoSessionCall]
    /\ requests = 0
    /\ lastReset = 0
    /\ currentContext = [u \in AllUserIds |-> NULL]
    /\ req = [r \in Reqs |-> NoReq]

Aux == <<cacheRet, lastSet, insertedAt, opCount, ucRet, rlRet, retryRet, routerRet,
         SessionVars>>

\* Date.now() moves on.
Tick ==
    /\ now < MaxTime
    /\ now' = now + 1
    /\ UNCHANGED <<cache, Aux, requests, lastReset, currentContext, req>>

\* (a variant with a window of its own for every user but "u1")
StartWithOwnWindow(r, u, m, atts) ==
    /\ req[r].pc = "idle"
    /\ r > 1 => req[r - 1].pc # "idle"
    /\ LET l == IF u = "u1" THEN checkLimit(requests, lastReset, now)
                ELSE [allowed |-> TRUE, requests |-> requests, lastReset |-> lastReset]
       IN  /\ requests' = l.requests
           /\ lastReset' = l.lastReset
           /\ req' = [req EXCEPT ![r] = [@ EXCEPT !.pc = "rateChecked",
                                                   !.userId = u,
                                                   !.message = m,
                                                   !.attachments = atts,
                                                   !.allowed = l.allowed]]
    /\ UNCHANGED <<now, cache, Aux, currentContext>>

\* processMessage(userId, message, attachments) is called: checkLimit runs
\* to its end, its value is awaited and dropped.
StartWith(r, u, m, atts) ==
    /\ req[r].pc = "idle"
    /\ r > 1 => req[r - 1].pc # "idle"
    /\ LET l == checkLimit(requests, lastReset, now)
       IN  /\ requests' = l.requests
           /\ lastReset' = l.lastReset
           /\ req' = [req EXCEPT ![r] = [@ EXCEPT !.pc = "rateChecked",
                                                   !.userId = u,
                                                   !.message = m,
                                                   !.attachments = atts,
                                                   !.allowed = l.allowed]]
    /\ UNCHANGED <<now, cache, Aux, currentContext>>

\* processMessage(userId, message), without attachments.
Start(r, u, m) == StartWith(r, u, m, <<>>)

\* processAttachment(attachment): the string its processor returns; of an
\* element that is null, reading attachment.type throws a TypeError.
processAttachment(a) ==
    IF a = NULL
    THEN Throws("Cannot read properties of null (reading 'type')")
    ELSE CASE a[1].type = "pdf"   -> Returns("PDF content processing not implemented")
           [] a[1].type = "image" -> Returns("Image content processing not implemented")
           [] OTHER -> Returns("Generic file content processing not implemented")

\* Array.join('\n\n')
RECURSIVE join(_)
join(strs) ==
    IF strs = <<>> THEN ""
    ELSE IF Len(strs) = 1 THEN strs[1]
    ELSE strs[1] \o "\n\n" \o join(Tail(strs))

\* processAttachments(attachments): Promise.all rejects with the error of
\* the first element whose processing throws, and otherwise the strings are
\* joined.
processAttachments(atts) ==
    LET p == [i \in 1..Len(atts) |-> processAttachment(atts[i])]
        bad == {i \in 1..Len(atts) : p[i].kind = "throws"}
    IN  IF bad # {}
        THEN p[CHOOSE i \in bad : \A j \in bad : i <= j]
        ELSE Returns(join([i \in 1..Len(atts) |-> p[i].value]))

\* (a variant that ignores the hit and goes on to the provider)
ReturnCachedIgnored(q, v) ==
    [q EXCEPT !.pc = "awaitingProvider", !.providerCalls = @ + 1,
              !.provider = "pending"]

\* return cachedResponse
ReturnCached(q, v) == Ended([q EXCEPT !.pc = "done", !.result = v])

\* Timeout.wrap(this.getAIResponseWithRetry(...), this.TIMEOUT_MS) with
\* class Timeout as it is: the argument is evaluated, which invokes the
\* provider, and then the call of Timeout.wrap throws a TypeError, the class
\* having no method wrap; the catch block turns it into CHAT_ERROR.  The
\* provider's promise is left pending with nobody waiting for it.
CallProvider(q, t) ==
    Ended([q EXCEPT !.pc = "failed",
                    !.modelType = determineAIModel(q.message, q.context),
                    !.providerCalls = @ + getAIResponseWithRetry,
                    !.provider = "pending",
                    !.error = ChatError("Timeout.wrap is not a function")])

\* The same with the Timeout.wrap that processMessage calls for: the
\* provider's promise is raced against a timer of TIMEOUT_MS.
CallProviderWrap(q, t) ==
    [q EXCEPT !.pc = "awaitingProvider",
              !.modelType = determineAIModel(q.message, q.context),
              !.providerCalls = @ + getAIResponseWithRetry,
              !.provider = "pending",
              !.deadline = t + TIMEOUT_MS]

\* processMessage from the cache lookup to the provider call.  On a hit the
\* call returns the cached response.  On a miss it takes the context of the
\* user, selects the model and calls the provider (the awaits on the way are
\* of functions that do no I/O and touch nothing but the call's variables:
\* getContext, determineAIModel and, for attachments, processAttachments,
\* whose rejection takes the call to the catch block).
LookupAndCall(r, hasWrap) ==
    /\ req[r].pc = "rateChecked"
    /\ LET g == CacheGet(cache, generateCacheKey(req[r].userId, req[r].message), now)
           q == [req[r] EXCEPT !.effects = IF g.cache # cache THEN {"cache"} ELSE {}]
       IN  /\ cache' = g.cache
           /\ req' = [req EXCEPT ![r] =
                        IF g.value # NULL
                        THEN ReturnCached(q, g.value)
                        ELSE LET ctx == currentContext[req[r].userId]
                                 pa == IF Len(q.attachments) > 0
                                       THEN processAttachments(q.attachments)
                                       ELSE Returns("")
                                 c == [q EXCEPT !.context = ctx,
                                                !.attachmentContext =
                                                    IF pa.kind = "returns" THEN pa.value ELSE ""]
                             IN  IF pa.kind = "throws"
                                 THEN Ended([c EXCEPT !.pc = "failed",
                                                      !.modelType = determineAIModel(q.message, ctx),
                                                      !.error = ChatError(pa.value)])
                                 ELSE IF hasWrap THEN CallProviderWrap(c, now)
                                 ELSE CallProvider(c, now)]
    /\ UNCHANGED <<now, Aux, requests, lastReset, currentContext>>

\* With class Timeout as it is.
CacheLookup(r) == LookupAndCall(r, FALSE)

\* With a Timeout.wrap.
CacheLookupWrap(r) == LookupAndCall(r, TRUE)

\* The provider answers or fails after the call has ended: the promise
\* settles and nobody sees it.
ProviderSettle(r) ==
    /\ req[r].pc = "failed"
    /\ req[r].provider = "pending"
    /\ \/ req' = [req EXCEPT ![r].provider = "resolved"]
       \/ \E e \in ProviderErrors : req' = [req EXCEPT ![r].provider = e]
    /\ UNCHANGED <<now, cache, Aux, requests, lastReset, currentContext>>

\* The timer of Timeout.wrap fires before the provider's promise has settled.
TimerFires(r) ==
    /\ req[r].pc = "awaitingProvider"
    /\ now >= req[r].deadline
    /\ req' = [req EXCEPT ![r] = Ended([@ EXCEPT !.pc = "failed",
                                                  !.error = ChatError("timeout")])]
    /\ UNCHANGED <<now, cache, Aux, requests, lastReset, currentContext>>

\* The provider fails: its promise rejects and processMessage resumes in the
\* catch block (retry has returned the promise of the first invocation and
\* is no longer there to catch the rejection).
ProviderFails(r, e) ==
    /\ req[r].pc = "awaitingProvider"
    /\ req' = [req EXCEPT ![r] = Ended([@ EXCEPT !.pc = "failed",
                                                  !.provider = e,
                                                  !.error = ChatError(e)])]
    /\ UNCHANGED <<now, cache, Aux, requests, lastReset, currentContext>>

\* (a variant that updates the context the call fetched before the provider
\* call, not the one the Map holds now)
ProviderRespondsStale(r) ==
    /\ req[r].pc = "awaitingProvider"
    /\ LET response == Response(r, req[r].modelType)
           u == req[r].userId
       IN  /\ currentContext' =
                 [currentContext EXCEPT ![u] =
                     Some(contextUpdate(req[r].context, req[r].message, response, now))]
           /\ req' = [req EXCEPT ![r] = [@ EXCEPT !.pc = "persisting",
                                                  !.provider = "resolved",
                                                  !.response = Some(response),
                                                  !.effects = @ \cup {"context"}]]
    /\ UNCHANGED <<now, cache, Aux, requests, lastReset>>

\* (a variant that writes the cache before it updates the context)
ProviderRespondsCachesFirst(r) ==
    /\ req[r].pc = "awaitingProvider"
    /\ LET response == Response(r, req[r].modelType)
       IN  /\ cache' = CacheSet(cache, generateCacheKey(req[r].userId, req[r].message),
                                response, now)
           /\ req' = [req EXCEPT ![r] = [@ EXCEPT !.pc = "persisting",
                                                  !.provider = "resolved",
                                                  !.response = Some(response),
                                                  !.effects = @ \cup {"cache"}]]
    /\ UNCHANGED <<now, Aux, requests, lastReset, currentContext>>

\* The provider answers: processMessage resumes with the response and calls
\* updateContext, which runs up to its await of persistContext.
ProviderResponds(r) ==
    /\ req[r].pc = "awaitingProvider"
    /\ LET response == Response(r, req[r].modelType)
           uc == updateContext(currentContext, req[r].userId,
                               req[r].message, response, now)
       IN  IF uc.error # NULL
           THEN /\ req' = [req EXCEPT ![r] =
                             Ended([@ EXCEPT !.pc = "failed",
                                             !.provider = "resolved",
                                             !.response = Some(response),
                                             !.effects = @ \cup (IF uc.map # currentContext
                                                                 THEN {"context"} ELSE {}),
                                             !.error = ChatError("Failed to update conversation context")])]
                /\ currentContext' = uc.map
           ELSE /\ req' = [req EXCEPT ![r] = [@ EXCEPT !.pc = "persisting",
                                                        !.provider = "resolved",
                                                        !.response = Some(response),
                                                        !.effects = @ \cup (IF uc.map # currentContext
                                                                            THEN {"context"} ELSE {})]]
                /\ currentContext' = uc.map
    /\ UNCHANGED <<now, cache, Aux, requests, lastReset>>

\* (a variant in which a failed write ends the call with an error)
PersistSettleThrows(r) ==
    /\ req[r].pc = "persisting"
    /\ req' = [req EXCEPT ![r] =
                 Ended([@ EXCEPT !.pc = "failed", !.persist = "failed",
                                 !.error = ChatError("Failed to update conversation context")])]
    /\ UNCHANGED <<now, cache, Aux, requests, lastReset, currentContext>>

\* persistContext ends, the write done or failed and the failure swallowed
\* by its catch block; updateContext returns, processMessage writes the
\* cache and returns the response.
PersistSettle(r) ==
    /\ req[r].pc = "persisting"
    /\ cache' = CacheSet(cache, generateCacheKey(req[r].userId, req[r].message),
                         req[r].response[1], now)
    /\ \E outcome \in {"written", "failed"} :
          req' = [req EXCEPT ![r] = Ended([@ EXCEPT !.pc = "done",
                                                     !.persist = outcome,
                                                     !.result = req[r].response,
                                                     !.effects = @ \cup (IF cache' # cache
                                                                         THEN {"cache"} ELSE {})])]
    /\ UNCHANGED <<now, Aux, requests, lastReset, currentContext>>

Next ==
    \/ Tick
    \/ \E r \in Reqs, i \in Inputs : Start(r, i[1], i[2])
    \/ \E r \in Reqs : CacheLookup(r)
    \/ \E r \in Reqs : ProviderSettle(r)

\* The program as it is in the source.
Spec == Init /\ [][Next]_vars

NextWrap ==
    \/ Tick
    \/ \E r \in Reqs, i \in Inputs : Start(r, i[1], i[2])
    \/ \E r \in Reqs : CacheLookupWrap(r)
    \/ \E r \in Reqs : TimerFires(r)
    \/ \E r \in Reqs, e \in ProviderErrors : ProviderFails(r, e)
    \/ \E r \in Reqs : ProviderResponds(r)
    \/ \E r \in Reqs : PersistSettle(r)

\* The program with Timeout.wrap in place.
SpecWrap == Init /\ [][NextWrap]_vars

NextKeys ==
    \/ Tick
    \/ \E r \in Reqs, i \in ColonInputs : StartWith(r, i[1], i[2], <<>>)
    \/ \E r \in Reqs : CacheLookupWrap(r)
    \/ \E r \in Reqs : TimerFires(r)
    \/ \E r \in Reqs, e \in ProviderErrors : ProviderFails(r, e)
    \/ \E r \in Reqs : ProviderResponds(r)
    \/ \E r \in Reqs : PersistSettle(r)

\* The program with Timeout.wrap in place, called with userIds and messages
\* that hold a colon.
SpecKeys == Init /\ [][NextKeys]_vars

\* The attachments of a call: an element is {type, content, name} or, the
\* type not being checked when the program runs, null.
Attachment(type) == Some([type |-> type])
AttachmentInputs ==
    { <<Attachment("pdf")>>,
      <<Attachment("image"), Attachment("csv")>>,
      <<Attachment("pdf"), NULL>>,
      <<NULL, Attachment("image")>> }

NextAttach ==
    \/ Tick
    \/ \E r \in Reqs, u \in {"u1", "u2"}, atts \in AttachmentInputs :
          StartWith(r, u, "hi", atts)
    \/ \E r \in Reqs : CacheLookup(r)
    \/ \E r \in Reqs : ProviderSettle(r)

\* The program as it is in the source, called with attachments.
SpecAttach == Init /\ [][NextAttach]_vars

\* ------------------------------------------------- a Cache used on its own
Service == <<requests, lastReset, currentContext, req, ucRet, rlRet, retryRet, routerRet,
             SessionVars>>

\* The keys of the Map.
KeysOf(c) == {c[i].key : i \in 1..Len(c)}

\* cache.get(k)
Get(k) ==
    /\ opCount < MaxOps
    /\ LET g == CacheGet(cache, k, now)
       IN  /\ cache' = g.cache
           /\ cacheRet' = [op |-> "get", key |-> k, value |-> g.value,
                           expired |-> IF /\ Len(cache) = maxSize
                                          /\ Has(cache, k)
                                          /\ g.value = NULL
                                       THEN k ELSE "",
                           refill |-> FALSE]
    /\ opCount' = opCount + 1
    /\ UNCHANGED <<now, lastSet, insertedAt, Service>>

\* cache.set(k, v)
Set(k, v) ==
    /\ opCount < MaxOps
    /\ cache' = CacheSet(cache, k, v, now)
    /\ cacheRet' = [op |-> "set", key |-> k, value |-> Some(v),
                    expired |-> "", refill |-> cacheRet.expired = k]
    /\ lastSet' = [lastSet EXCEPT ![k] = Some([value |-> v, time |-> now])]
    /\ insertedAt' = [insertedAt EXCEPT ![k] =
                         IF k \in KeysOf(cache) /\ k \in KeysOf(Evict(cache))
                         THEN @ ELSE opCount + 1]
    /\ opCount' = opCount + 1
    /\ UNCHANGED <<now, Service>>

\* cache.clear()
Clear ==
    /\ opCount < MaxOps
    /\ cache' = CacheClear(cache)
    /\ cacheRet' = [op |-> "clear", key |-> "", value |-> NULL,
                    expired |-> "", refill |-> FALSE]
    /\ opCount' = opCount + 1
    /\ UNCHANGED <<now, lastSet, insertedAt, Service>>

NextCache ==
    \/ Tick
    \/ \E k \in CacheKeys : Get(k)
    \/ \E k \in CacheKeys, v \in CacheValues : Set(k, v)
    \/ Clear

\* A Cache and its operations, called in any order at any time.
SpecCache == Init /\ [][NextCache]_vars

\* ---------------------------------------- the context store used on its own
\* updateContext(u, m, response) is called and runs to its end; the write of
\* persistContext is done or fails, which its catch block swallows.
UpdateContextCall(u, m) ==
    /\ opCount < MaxOps
    /\ LET response == Response(opCount + 1, determineAIModel(m, currentContext[u]))
           uc == updateContext(currentContext, u, m, response, now)
       IN  /\ currentContext' = uc.map
           /\ \E outcome \in {"written", "failed"} :
                 ucRet' = [op |-> "updateContext", userId |-> u, message |-> m,
                           error |-> uc.error,
                           persist |-> IF uc.error = NULL THEN outcome ELSE "none"]
    /\ opCount' = opCount + 1
    /\ UNCHANGED <<SessionVars, now, cache, cacheRet, lastSet, insertedAt, rlRet, retryRet, routerRet,
                   requests, lastReset, req>>

NextContext ==
    \/ Tick
    \/ \E u \in UserIds, m \in MessageTexts : UpdateContextCall(u, m)

\* The context store and its update, called in any order at any time.
SpecContext == Init /\ [][NextContext]_vars

\* ------------------------------------------ a RateLimiter used on its own
\* rateLimiter.checkLimit() is called.  rlRet keeps, besides the value
\* returned, the history the call leaves: whether it began a new window,
\* whether the count stood at maxRequests when it was called, and how many
\* calls have returned true since the window began; log lists the calls made,
\* with the time and the value returned of each.
CheckLimitCall ==
    /\ opCount < MaxOps
    /\ LET l == checkLimit(requests, lastReset, now)
           reset == l.lastReset # lastReset
       IN  /\ requests' = l.requests
           /\ lastReset' = l.lastReset
           /\ rlRet' = [op |-> "checkLimit", allowed |-> l.allowed,
                        reset |-> reset,
                        exhausted |-> requests >= maxRequests,
                        granted |-> (IF reset THEN 0 ELSE rlRet.granted)
                                    + (IF l.allowed THEN 1 ELSE 0),
                        log |-> Append(rlRet.log, [at |-> now, allowed |-> l.allowed]),
                        wait |-> rlRet.wait]
    /\ opCount' = opCount + 1
    /\ UNCHANGED <<SessionVars, now, cache, cacheRet, lastSet, insertedAt, ucRet, retryRet, routerRet,
                   currentContext, req>>

\* rateLimiter.waitForReset() is called: it sets a timer for what is left
\* of the window (wait) and changes nothing of the limiter.
WaitForResetCall ==
    /\ opCount < MaxOps
    /\ rlRet' = [rlRet EXCEPT !.op = "waitForReset",
                              !.wait = resetInterval - (now - lastReset)]
    /\ opCount' = opCount + 1
    /\ UNCHANGED <<SessionVars, now, cache, cacheRet, lastSet, insertedAt, ucRet, retryRet, routerRet,
                   requests, lastReset, currentContext, req>>

NextLimiter ==
    \/ Tick
    \/ CheckLimitCall
    \/ WaitForResetCall

\* A RateLimiter, called at any time.
SpecLimiter == Init /\ [][NextLimiter]_vars

\* ------------------------------------------------- retry called on its own
\* What a call of fn can do.
Outcomes == {Returns("v1"), Returns("promise"), Throws("e1"), Throws("e2")}

\* retry(fn, attempts) is called with a synchronous fn whose calls do, in
\* order, what outcome says.
RetryCall(outcome, attempts) ==
    /\ opCount < MaxOps
    /\ LET x == retry(outcome, attempts)
       IN  retryRet' = [op |-> "retry", outcome |-> outcome, attempts |-> attempts,
                        calls |-> x.calls, kind |-> x.kind, value |-> x.value]
    /\ opCount' = opCount + 1
    /\ UNCHANGED <<SessionVars, now, cache, cacheRet, lastSet, insertedAt, ucRet, rlRet, routerRet,
                   requests, lastReset, currentContext, req>>

NextRetry ==
    \E attempts \in 0..MaxAttempts, outcome \in [1..MaxAttempts -> Outcomes] :
        RetryCall(outcome, attempts)

\* retry, called with any function and any number of attempts.
SpecRetry == Init /\ [][NextRetry]_vars

\* --------------------------------------- the model router used on its own
\* determineAIModel(m, context) is called as processMessage calls it, with
\* the context getContext(u) returns; routerRet keeps the arguments and the
\* model returned.
DetermineModelCall(u, m) ==
    /\ opCount < MaxOps
    /\ routerRet' = [op |-> "determineAIModel", message |-> m,
                     context |-> currentContext[u],
                     model |-> determineAIModel(m, currentContext[u])]
    /\ opCount' = opCount + 1
    /\ UNCHANGED <<SessionVars, now, cache, cacheRet, lastSet, insertedAt, ucRet, rlRet, retryRet,
                   requests, lastReset, currentContext, req>>

NextRouter ==
    \/ \E m \in RouterMessages : DetermineModelCall("u1", m)
    \/ \E m \in ContextMessages : UpdateContextCall("u1", m)

\* The model router, called with any message for a user who has no context
\* at first and whose context successive exchanges build.
SpecRouter == Init /\ [][NextRouter]_vars

\* ------------------------------------------------------- ContextService
SessionTypes == {"general", "tax"}

\* `session_${Date.now()}_${userId}`
SessionId(t, userId) == "session_" \o ToString(t) \o "_" \o userId

\* The ChatSession createNewSession builds; Timestamp.now().toMillis() is
\* the time of the same clock.
NewSession(userId, type, t) ==
    [id |-> SessionId(t, userId),
     userId |-> userId,
     messages |-> <<>>,
     context |-> [lastInteraction |-> t, pendingActions |-> <<>>,
                  activeModule |-> NULL],
     metadata |-> [createdAt |-> t, lastAccessed |-> t, sessionType |-> type]]

\* setDoc(ref, data) done: the document of that id is data.
SetDoc(docs, data) == {d \in docs : d.id # data.id} \cup {data}

\* new AppError('SESSION_CREATION_ERROR', 'Failed to create new session')
SessionCreationError ==
    Some([code |-> "SESSION_CREATION_ERROR",
          message |-> "Failed to create new session"])

\* createNewSession(userId, type) is called and runs up to its await of
\* setDoc.
CreateNewSession(c, userId, type) ==
    /\ sess[c].pc = "idle"
    /\ c > 1 => sess[c - 1].pc # "idle"
    /\ sess' = [sess EXCEPT ![c] = [@ EXCEPT !.pc = "writing",
                                             !.userId = userId,
                                             !.newSession = Some(NewSession(userId, type, now))]]
    /\ UNCHANGED <<sessions, now, cache, cacheRet, lastSet, insertedAt, opCount, ucRet,
                   rlRet, retryRet, routerRet, requests, lastReset, currentContext, req>>

\* The write of setDoc is done.
SetDocDone(c) ==
    /\ sess[c].pc = "writing"
    /\ sessions' = SetDoc(sessions, sess[c].newSession[1])
    /\ sess' = [sess EXCEPT ![c].pc = "written"]
    /\ UNCHANGED <<now, cache, cacheRet, lastSet, insertedAt, opCount, ucRet,
                   rlRet, retryRet, routerRet, requests, lastReset, currentContext, req>>

\* The promise of setDoc resolves: createNewSession resumes and returns
\* newSession.
SetDocResolves(c) ==
    /\ sess[c].pc = "written"
    /\ sess' = [sess EXCEPT ![c] = [@ EXCEPT !.pc = "done",
                                             !.result = sess[c].newSession]]
    /\ UNCHANGED <<sessions, now, cache, cacheRet, lastSet, insertedAt, opCount, ucRet,
                   rlRet, retryRet, routerRet, requests, lastReset, currentContext, req>>

\* (a variant that swallows the failure of the write)
SetDocRejectsSwallowed(c) ==
    /\ sess[c].pc = "writing"
    /\ sess' = [sess EXCEPT ![c] = [@ EXCEPT !.pc = "done",
                                             !.result = sess[c].newSession]]
    /\ UNCHANGED <<sessions, now, cache, cacheRet, lastSet, insertedAt, opCount, ucRet,
                   rlRet, retryRet, routerRet, requests, lastReset, currentContext, req>>

\* The write fails and the promise of setDoc rejects: createNewSession
\* resumes in its catch block and throws SESSION_CREATION_ERROR.
SetDocRejects(c) ==
    /\ sess[c].pc = "writing"
    /\ sess' = [sess EXCEPT ![c] = [@ EXCEPT !.pc = "failed",
                                             !.error = SessionCreationError]]
    /\ UNCHANGED <<sessions, now, cache, cacheRet, lastSet, insertedAt, opCount, ucRet,
                   rlRet, retryRet, routerRet, requests, lastReset, currentContext, req>>

NextSessions ==
    \/ Tick
    \/ \E c \in Reqs, u \in {"u1", "u2"}, type \in SessionTypes :
          CreateNewSession(c, u, type)
    \/ \E c \in Reqs : SetDocDone(c)
    \/ \E c \in Reqs : SetDocResolves(c)
    \/ \E c \in Reqs : SetDocRejects(c)

\* The ContextService creating sessions, the calls overlapping in any way.
SpecSessions == Init /\ [][NextSessions]_vars

\* ================================================================ claims
\* The cache key of call r.
Key(r) == generateCacheKey(req[r].userId, req[r].message)

\* Call r takes the step.
Step(r) == req'[r] # req[r]

\* The Map holds an entry for k that is no older than ttl at time t.
LiveEntry(c, k, t) ==
    \E i \in 1..Len(c) : c[i].key = k /\ t - c[i].timestamp <= ttl

C2_DeniedCallFailsFast ==
    \A r \in Reqs :
        (req[r].pc # "idle" /\ ~req[r].allowed)
        => /\ req[r].pc \in {"rateChecked", "failed"}
           /\ req[r].providerCalls = 0
           /\ req[r].effects = {}

\* ------------------------------------------------------------------- C3
\* C3: when a provider invocation has failed the provider is invoked again,
\* so a provider failure is final only after MAX_RETRIES invocations.
C3_FailedInvocationIsRetried ==
    \A r \in Reqs :
        req[r].provider \in ProviderErrors => req[r].providerCalls = MAX_RETRIES

\* ------------------------------------------------------------------- C4
\* C4: a call that has reached the provider step and failed has failed
\* either with the timeout of the deadline or with what the provider's
\* settled promise led to (its rejection, or the failure of the context
\* update that followed its response).
C4_OutcomeIsProvidersOrTimeout ==
    \A r \in Reqs :
        (req[r].pc = "failed" /\ req[r].providerCalls > 0)
        => \/ req[r].error = ChatError("timeout")
           \/ \E e \in ProviderErrors :
                 req[r].provider = e /\ req[r].error = ChatError(e)
           \/ /\ req[r].provider = "resolved"
              /\ req[r].error = ChatError("Failed to update conversation context")

C6_HistoryAtMostCap ==
    \A u \in UserIds : Len(HistoryOf(currentContext[u])) <= maxHistoryLength

\* ------------------------------------------------------------------- C7
\* C7: updateContext called with an empty userId or an empty message fails
\* with the code INVALID_CONTEXT_UPDATE.
C7_ValidationCodeVisible ==
    (ucRet.op = "updateContext" /\ (ucRet.userId = "" \/ ucRet.message = ""))
    => ucRet.error = Some("INVALID_CONTEXT_UPDATE")

EntriesAreLastSet ==
    \A i \in 1..Len(cache) :
        lastSet[cache[i].key] =
            Some([value |-> cache[i].value, time |-> cache[i].timestamp])

\* C9: get(k) returns the value last set for k if k is in the Map and that
\* set is at most ttl ago, and then changes nothing; otherwise it returns
\* null and k is not in the Map afterwards, every other entry staying.  A
\* key leaves the Map only by a get that finds it expired, by the eviction
\* of a set, or by clear.
C9_LazyExpiry ==
    /\ []EntriesAreLastSet
    /\ [][/\ \A k \in CacheKeys :
               Get(k) =>
                 IF Has(cache, k) /\ now - lastSet[k][1].time <= ttl
                 THEN /\ cacheRet'.value = Some(lastSet[k][1].value)
                      /\ cache' = cache
                 ELSE /\ cacheRet'.value = NULL
                      /\ ~Has(cache', k)
                      /\ cache' = SelectSeq(cache, LAMBDA e : e.key # k)
          /\ \A k \in CacheKeys :
               (Has(cache, k) /\ ~Has(cache', k))
               => \/ Get(k) /\ now - lastSet[k][1].time > ttl
                  \/ /\ \E k2 \in CacheKeys, v \in CacheValues : Set(k2, v)
                     /\ Len(cache) >= maxSize
                     /\ cache[1].key = k
                  \/ Clear]_vars

\* After one set and one get of the same key, more than ttl later, the get
\* has returned null and the key is gone.
C9_Witness ==
    /\ opCount = 2
    /\ cacheRet.op = "get" /\ cacheRet.value = NULL
    /\ lastSet[cacheRet.key] # NULL
    /\ now - lastSet[cacheRet.key][1].time > ttl
    /\ cache = <<>>

\* ------------------------------------------------------------------ C10
\* The key of the Map that was inserted first.
OldestInserted(c) ==
    CHOOSE k \in KeysOf(c) : \A j \in KeysOf(c) : insertedAt[k] <= insertedAt[j]

\* C10: the Map never holds more than maxSize entries, and a set of a new
\* key into a Map of maxSize entries removes the key inserted first and no
\* other, leaving the other entries as they are, and adds the new key.
C10_Capacity ==
    /\ [](Len(cache) <= maxSize)
    /\ [][\A k \in CacheKeys, v \in CacheValues :
             (Set(k, v) /\ ~Has(cache, k) /\ Len(cache) = maxSize)
             => /\ KeysOf(cache') = (KeysOf(cache) \ {OldestInserted(cache)}) \cup {k}
                /\ Len(cache') = maxSize
                /\ \A i \in 1..Len(cache) :
                      cache[i].key # OldestInserted(cache)
                      => \E j \in 1..Len(cache') : cache'[j] = cache[i]]_vars

\* maxSize + 1 distinct keys have been set and nothing else done: the Map
\* holds maxSize entries and the key set first is not among them.
C10_Witness ==
    /\ opCount = maxSize + 1
    /\ cacheRet.op = "set"
    /\ Cardinality({k \in CacheKeys : lastSet[k] # NULL}) = maxSize + 1
    /\ Len(cache) = maxSize
    /\ \E k \in CacheKeys :
          /\ insertedAt[k] = 1
          /\ ~Has(cache, k)

\* ------------------------------------------------------------------ C11
\* C11: a get that finds the entry of its key expired in a Map of maxSize
\* entries removes it, leaving maxSize - 1 entries; a set of that key right
\* after it adds the key at the end of the Map and leaves every other entry
\* in its place: no key is evicted.
C11_RefillEvictsNothing ==
    [][\A k \in CacheKeys :
          /\ (Get(k) /\ cacheRet'.expired = k)
             => /\ ~Has(cache', k)
                /\ Len(cache') = maxSize - 1
          /\ \A v \in CacheValues :
                (Set(k, v) /\ cacheRet.expired = k)
                => /\ Len(cache') = maxSize
                   /\ \A i \in 1..Len(cache) : cache'[i] = cache[i]
                   /\ cache'[maxSize] = [key |-> k, value |-> v, timestamp |-> now]
                   /\ KeysOf(cache') = KeysOf(cache) \cup {k}]_vars

\* A set has put back the key that the get before it had found expired in a
\* full Map, and the Map is full again with the keys it had.
C11_Witness ==
    /\ cacheRet.op = "set" /\ cacheRet.refill
    /\ Len(cache) = maxSize
    /\ cache[maxSize].key = cacheRet.key
    /\ \A i \in 1..Len(cache) : lastSet[cache[i].key] # NULL

\* ------------------------------------------------------------------ C12
\* C12: the count stays within 0..maxRequests, and no more than maxRequests
\* calls return true within one window; a call that returns true adds one to
\* the count (taken as 0 when the call begins a new window) and a call that
\* returns false leaves the count and the window as they are.
C12_AtMostMaxPerWindow ==
    /\ [](requests \in 0..maxRequests)
    /\ [](rlRet.granted <= maxRequests)
    /\ [][CheckLimitCall =>
             IF rlRet'.allowed
             THEN requests' = (IF rlRet'.reset THEN 0 ELSE requests) + 1
             ELSE requests' = requests /\ lastReset' = lastReset]_vars

\* maxRequests + 1 calls in the first window: all but the last returned true.
C12_Witness ==
    /\ opCount = maxRequests + 1
    /\ rlRet.op = "checkLimit" /\ ~rlRet.allowed /\ ~rlRet.reset
    /\ rlRet.granted = maxRequests
    /\ requests = maxRequests
    /\ lastReset = 0
    /\ \A i \in 1..Len(rlRet.log) : rlRet.log[i].allowed <=> i <= maxRequests

\* ------------------------------------------------------------------ C13
\* C13: a call made resetInterval or more after lastReset begins a new
\* window: lastReset becomes the time of the call, the count restarts and
\* the call, counted as the first of the window, returns true; a call made
\* earlier, with the count at maxRequests, returns false and changes
\* nothing.
C13_WindowReset ==
    [][CheckLimitCall =>
         IF now - lastReset >= resetInterval
         THEN /\ rlRet'.allowed
              /\ requests' = 1
              /\ lastReset' = now
         ELSE /\ lastReset' = lastReset
              /\ requests >= maxRequests
                 => ~rlRet'.allowed /\ requests' = requests]_vars

\* A call has found the limiter exhausted, the window over, and returned true.
C13_Witness ==
    /\ rlRet.op = "checkLimit"
    /\ rlRet.exhausted /\ rlRet.reset /\ rlRet.allowed
    /\ requests = 1
    /\ lastReset = now

\* ------------------------------------------------------------------ C14
\* C14: retry(op, n) has called op as many times as it took to get the first
\* call that does not throw, and has returned what that call returned; if
\* each of the n calls throws, it has called op n times and thrown the error
\* of the n-th call.
C14_RetryContract ==
    retryRet.op = "retry" =>
        LET o == retryRet.outcome
            n == retryRet.attempts
            good == {i \in 1..n : o[i].kind = "returns"}
        IN  IF good # {}
            THEN LET first == CHOOSE i \in good : \A j \in good : i <= j
                 IN  /\ retryRet.calls = first
                     /\ retryRet.kind = "returns"
                     /\ retryRet.value = o[first].value
            ELSE /\ retryRet.calls = n
                 /\ retryRet.kind = "throws"
                 /\ n > 0 => retryRet.value = o[n].value

\* An op that throws on every call, the first error other than the last:
\* retry has made MaxAttempts calls and thrown the last error.
C14_Witness ==
    /\ retryRet.op = "retry"
    /\ retryRet.attempts = MaxAttempts
    /\ \A i \in 1..MaxAttempts : retryRet.outcome[i].kind = "throws"
    /\ retryRet.outcome[1].value # retryRet.outcome[MaxAttempts].value
    /\ retryRet.calls = MaxAttempts
    /\ retryRet.kind = "throws"
    /\ retryRet.value = retryRet.outcome[MaxAttempts].value

\* ------------------------------------------------------------------ C15
\* C15: determineAIModel returns claude exactly when the number of keywords
\* found in the message, divided by the number of its words, is above 0.7 or
\* the serialized context is longer than 800 characters (complexity above
\* 0.8), and gpt4 otherwise; two calls with the same message and the same
\* context return the same model, whenever they are made.
C15_DecisionRule ==
    /\ [](routerRet.op = "determineAIModel"
          => LET s == Chars(routerRet.message)
             IN  routerRet.model =
                     IF \/ 10 * technicalWordCount(s) > 7 * wordCount(s)
                        \/ ContextJsonLength(routerRet.context) > 800
                     THEN "claude" ELSE "gpt4")
    /\ [][(/\ routerRet.op = "determineAIModel"
           /\ routerRet'.message = routerRet.message
           /\ routerRet'.context = routerRet.context)
          => routerRet'.model = routerRet.model]_vars

\* A message without a keyword has been routed to claude for its context,
\* and the context is that of a user two calls earlier routed to gpt4.
C15_Witness ==
    /\ routerRet.op = "determineAIModel"
    /\ routerRet.message = "hi there"
    /\ routerRet.model = "claude"
    /\ routerRet.context # NULL
    /\ ContextJsonLength(routerRet.context) > 800

\* ------------------------------------------------------------------ C16
\* C16: for a user without a context the message "Calculate my tax
\* deductions for my W2 form", and its variant without the second "my", is
\* routed to claude, and "hi there" to gpt4.
C16_W2MessageToClaude ==
    (routerRet.op = "determineAIModel" /\ routerRet.context = NULL)
    => /\ routerRet.message \in {"Calculate my tax deductions for my W2 form",
                                 "Calculate my tax deductions for W2 form"}
          => routerRet.model = "claude"
       /\ routerRet.message = "hi there" => routerRet.model = "gpt4"

\* ------------------------------------------------------------------ C17
\* C17: a createNewSession call that has returned has returned the session
\* it built, after the write of a document of that id was done; a call whose
\* write failed has thrown SESSION_CREATION_ERROR, has returned no session
\* and has written no document; and a call ends in no other way.
C17_FailsClosed ==
    /\ [](\A c \in Reqs :
            /\ sess[c].result # NULL
               => /\ sess[c].pc = "done"
                  /\ sess[c].error = NULL
                  /\ sess[c].result = sess[c].newSession
                  /\ \E d \in sessions : d.id = sess[c].result[1].id
            /\ sess[c].pc = "failed"
               => /\ sess[c].result = NULL
                  /\ sess[c].error = SessionCreationError
            /\ sess[c].pc = "done" => sess[c].result # NULL)
    /\ [][\A c \in Reqs :
             /\ sess'[c].pc = "done" => sess[c].pc \in {"written", "done"}
             /\ sess'[c].pc = "written"
                => \/ sess[c].pc = "written"
                   \/ sess'[c].newSession[1] \in sessions'
             /\ sess'[c].pc = "failed"
                => \/ sess[c].pc = "failed"
                   \/ sess[c].pc = "writing" /\ sessions' = sessions
             /\ sess[c].pc = "failed" => sess'[c] = sess[c]]_vars

\* One call has failed on its write and another has returned its session;
\* the store holds the document of the second and none of the first.
C17_Witness ==
    \E c, c2 \in Reqs :
        /\ sess[c].pc = "failed"
        /\ sess[c].error = SessionCreationError
        /\ \A d \in sessions : d.id # sess[c].newSession[1].id
        /\ sess[c2].pc = "done"
        /\ sess[c2].result[1] \in sessions

FailureKind(q) ==
    IF q.provider \in ProviderErrors THEN "ProviderError"
    ELSE IF q.provider = "resolved" THEN "ValidationFailed"
    ELSE "TimedOut"

\* C19: two calls that have failed in different ways have got errors of
\* different codes.
C19_CodeTellsKind ==
    \A r, r2 \in Reqs :
        (/\ req[r].pc = "failed" /\ req[r2].pc = "failed"
         /\ FailureKind(req[r]) # FailureKind(req[r2]))
        => req[r].error[1].code # req[r2].error[1].code

\* ------------------------------------------------------------------ C20
\* C20: a call with attachments that has missed the cache has gone on to
\* the provider, whatever the processing of its attachments did.
C20_AttachmentFailureDegrades ==
    \A r \in Reqs :
        (/\ req[r].pc \notin {"idle", "rateChecked"}
         /\ Len(req[r].attachments) > 0
         /\ req[r].result = NULL)
        => req[r].providerCalls >= 1

\* ------------------------------------------------------------------ C21
\* h is the end of g: what is left of g when messages are dropped from its
\* front.
IsSuffix(h, g) == Len(h) <= Len(g) /\ h = SubSeq(g, Len(g) - Len(h) + 1, Len(g))

StepOrder ==
    { <<"idle", "rateChecked">>, <<"rateChecked", "done">>,
      <<"rateChecked", "awaitingProvider">>, <<"rateChecked", "failed">>,
      <<"awaitingProvider", "persisting">>, <<"awaitingProvider", "failed">>,
      <<"persisting", "done">> }

\* The Map holds an entry that c does not hold.
Written(c, d) == \E i \in 1..Len(d) : \A j \in 1..Len(c) : c[j] # d[i]

C23_EmptyInputSkipsProvider ==
    \A r \in Reqs :
        (req[r].pc # "idle" /\ (req[r].userId = "" \/ req[r].message = ""))
        => /\ req[r].providerCalls = 0
           /\ req[r].pc \in {"rateChecked", "failed"}

\* ------------------------------------------------------------------ C24
\* The number of calls that returned true at a time from a to b.
GrantedIn(a, b) ==
    Cardinality({i \in 1..Len(rlRet.log) :
                    /\ rlRet.log[i].allowed
                    /\ a <= rlRet.log[i].at
                    /\ rlRet.log[i].at <= b})

\* C24: over any stretch of time shorter than resetInterval, no more than
\* 2 * maxRequests calls return true.
C24_BurstAtMostTwice ==
    \A a, b \in 0..MaxTime :
        (a <= b /\ b - a < resetInterval) => GrantedIn(a, b) <= 2 * maxRequests

\* 2 * maxRequests calls have returned true within less than resetInterval,
\* the last maxRequests of them in a new window.
C24_Witness ==
    /\ rlRet.op = "checkLimit" /\ rlRet.allowed
    /\ lastReset > 0
    /\ rlRet.granted = maxRequests
    /\ GrantedIn(lastReset - 1, lastReset) = 2 * maxRequests

\* ------------------------------------------------------------------ C25
\* The calls of user u that have updated the context.
Updaters(u) == {r \in Reqs : req[r].userId = u /\ "context" \in req[r].effects}

\* The history holds the message pair of call r.
HasPair(h, r) ==
    \E i \in 1..(Len(h) - 1) :
        /\ h[i].role = "user" /\ h[i].content = req[r].message
        /\ h[i + 1].role = "assistant"
        /\ h[i + 1].content = req[r].response[1].content

SamePair(r, r2) ==
    req[r].userId = req[r2].userId /\ req[r].message = req[r2].message

\* C26: of the calls of one (userId, message) that are in flight, at most
\* one has invoked the provider; and a history does not hold the same user
\* message twice with the second no more than ttl after the first.
C26_OneProviderCallPerPair ==
    /\ \A r, r2 \in Reqs :
          (/\ r # r2 /\ SamePair(r, r2)
           /\ req[r].pc \in {"awaitingProvider", "persisting"}
           /\ req[r2].pc \in {"awaitingProvider", "persisting"})
          => ~(req[r].providerCalls >= 1 /\ req[r2].providerCalls >= 1)
    /\ \A u \in UserIds :
          LET h == HistoryOf(currentContext[u])
          IN  \A i, j \in 1..Len(h) :
                  (/\ i < j
                   /\ h[i].role = "user" /\ h[j].role = "user"
                   /\ h[i].content = h[j].content)
                  => h[j].timestamp - h[i].timestamp > ttl

C28_OverwriteEvictsNothing ==
    [][\A k \in CacheKeys, v \in CacheValues :
          (Set(k, v) /\ Has(cache, k))
          => /\ KeysOf(cache') = KeysOf(cache)
             /\ cache'[IndexOf(cache', k)] =
                    [key |-> k, value |-> v, timestamp |-> now]
             /\ \A i \in 1..Len(cache) :
                   cache[i].key # k => \E j \in 1..Len(cache') : cache'[j] = cache[i]]_vars

Allowed == {r \in Reqs : req[r].pc # "idle" /\ req[r].allowed}

\* C30: there is one window for all users.  What checkLimit returns to a
\* call is decided by the count, the start of the window and the time, not
\* by the userId; the count is the number of calls allowed in the window,
\* whoever made them, and is never above maxRequests; and the calls allowed
\* in all windows so far are no more than maxRequests for each window.
C30_OneSharedWindow ==
    /\ [](requests \in 0..maxRequests)
    /\ [](Cardinality(Allowed) <= maxRequests * (1 + lastReset \div resetInterval))
    /\ [][\A r \in Reqs :
             (req[r].pc = "idle" /\ Step(r))
             => LET reset == now - lastReset >= resetInterval
                    n == IF reset THEN 0 ELSE requests
                IN  /\ req'[r].allowed = (n < maxRequests)
                    /\ requests' = IF req'[r].allowed THEN n + 1 ELSE n]_vars

\* Calls of two users in one window: the first maxRequests were allowed and
\* the call of the other user after them was denied.
C30_Witness ==
    \E r, r2 \in Reqs :
        /\ req[r].pc # "idle" /\ req[r2].pc # "idle"
        /\ req[r].userId # req[r2].userId
        /\ req[r].allowed /\ ~req[r2].allowed
        /\ lastReset = 0
        /\ requests = maxRequests
        /\ Cardinality(Allowed) = maxRequests

====
